---- MODULE Spec2Model ----
(***************************************************************************)
(* A model of vkit_open_model/loss_function/adaptive_scaling.py:           *)
(* AdaptiveScalingRoughLossFunction.__call__ and                           *)
(* AdaptiveScalingPreciseLossFunction.__call__, as the sequence of steps   *)
(* each call goes through (shape assertions, squeeze and crop, gated term  *)
(* accumulation, the final assertion and the return).                      *)
(*                                                                         *)
(* Numbers are fixed point.  Factors are in hundredths (2.0 is 200, 0.15   *)
(* is 15).  Heights and score-map values are in tenths (1.1 is 11).        *)
(* Sigmoid and log results are in thousandths.                             *)
(*                                                                         *)
(* The elementary loss primitives (weighted BCE, focal, Dice, L1, L2,      *)
(* WAHR, cross entropy) are not part of the modelled file.  A call to one  *)
(* of them is recorded as the record of its name and its arguments.        *)
(*                                                                         *)
(* The module also models the epoch loop of train() of                     *)
(* experiment/adaptive_scaling/train.py (restore, training batches,        *)
(* evaluation batches, checkpoint on improvement); see SpecTrain.          *)
(***************************************************************************)
EXTENDS Integers, Sequences, FiniteSets, TLC

\* Bounds of the model: batch size, feature height and width, label points.
MaxB == 2
MaxH == 2
MaxW == 2
MaxP == 3

VARIABLES
    fn,     \* which loss function is being called: "rough" or "precise"
    pc,     \* position of the call
    cfg,    \* self.config
    inp,    \* the arguments as the caller holds them
    loc,    \* the local bindings of __call__ (rebound by squeeze, crop, clamp)
    loss,   \* the accumulator `loss`
    ret,    \* "none" while running, then "loss" or "AssertionError"
    raised, \* the source line of the assertion that failed, 0 when none did
    done,   \* the calls this loss function object has finished, with their results
    \* train() of experiment/adaptive_scaling/train.py
    tcfg,           \* the configuration and arguments of the run, and the number
                    \* of batches each data loader yields per epoch
    tpc,            \* position in train(); "idle" when no run is modelled
    epoch_idx,
    batch_idx,
    training,       \* model_jit.training
    grad_enabled,   \* torch.is_grad_enabled()
    best_dev_loss,
    dev_losses,
    metrics,        \* the values Metrics holds for each tag
    saved,          \* the RestoreState written to each state_dict_<e>.pt
    sched_arg,      \* the last argument of optimizer_scheduler.step
    steps,          \* what the current batch has done so far, in order
    dev_history     \* the `dev_loss` of every epoch run so far, in order

callVars == <<fn, pc, cfg, inp, loc, loss, ret, raised, done>>

trainVars == <<tcfg, tpc, epoch_idx, batch_idx, training, grad_enabled, best_dev_loss,
               dev_losses, metrics, saved, sched_arg, steps, dev_history>>

vars == <<callVars, trainVars>>

\* No run of train() is modelled.
TrainIdle ==
    /\ tcfg = <<>>
    /\ tpc = "idle"
    /\ epoch_idx = 0
    /\ batch_idx = 0
    /\ training = TRUE
    /\ grad_enabled = TRUE
    /\ best_dev_loss = <<>>
    /\ dev_losses = <<>>
    /\ metrics = <<>>
    /\ saved = {}
    /\ sched_arg = <<>>
    /\ steps = <<>>
    /\ dev_history = <<>>

(***************************************************************************)
(* Tensors: a shape (a sequence of sizes) and a value for every index      *)
(* (a sequence of 0-based positions).                                      *)
(***************************************************************************)
Max2(a, b) == IF a >= b THEN a ELSE b

Min2(a, b) == IF a <= b THEN a ELSE b

\* Every index of a tensor of the given shape.
RECURSIVE Indices(_)
Indices(shape) ==
    IF Len(shape) = 0 THEN {<<>>}
    ELSE LET n == Len(shape)
         IN  {Append(p, k) : p \in Indices(SubSeq(shape, 1, n - 1)),
                             k \in 0..(shape[n] - 1)}

NoneTensor == [none |-> TRUE, shape |-> <<>>, data |-> <<>>]

MkTensor(shape, F(_)) ==
    [none |-> FALSE, shape |-> shape, data |-> [i \in Indices(shape) |-> F(i)]]

\* Position of index i in row-major order.
RECURSIVE Lin(_, _)
Lin(i, shape) ==
    IF Len(i) = 0 THEN 0
    ELSE LET n == Len(i)
         IN  Lin(SubSeq(i, 1, n - 1), SubSeq(shape, 1, n - 1)) * shape[n] + i[n]

RemoveAt(s, k) == SubSeq(s, 1, k - 1) \o SubSeq(s, k + 1, Len(s))

InsertAt(s, k, v) == SubSeq(s, 1, k - 1) \o <<v>> \o SubSeq(s, k, Len(s))

\* tensor.shape[1:]
ShapeFrom1(shape) == SubSeq(shape, 2, Len(shape))

\* torch.squeeze(t, dim): drops dimension dim when its size is 1.
Squeeze(t, dim) ==
    IF Len(t.shape) > dim /\ t.shape[dim + 1] = 1
    THEN LET shape == RemoveAt(t.shape, dim + 1)
         IN  [none |-> FALSE, shape |-> shape,
              data |-> [i \in Indices(shape) |-> t.data[InsertAt(i, dim + 1, 0)]]]
    ELSE t

\* A bound of a Python slice on a dimension of size n (slice.indices, step 1).
SliceBound(a, n) == IF a < 0 THEN Max2(a + n, 0) ELSE Min2(a, n)

\* CropStop without the + 1: the core box read as a half-open interval.
CropStopExclusive(last) == last

\* The stop of the slice for an inclusive last row or column.
CropStop(last) == last + 1

\* t[:, box.up:box.down + 1, box.left:box.right + 1] of a (B, H, W) tensor.
CropToBox(t, box) ==
    LET r0 == SliceBound(box.up, t.shape[2])
        r1 == SliceBound(CropStop(box.down), t.shape[2])
        c0 == SliceBound(box.left, t.shape[3])
        c1 == SliceBound(CropStop(box.right), t.shape[3])
        shape == <<t.shape[1], Max2(r1 - r0, 0), Max2(c1 - c0, 0)>>
    IN  [none |-> FALSE, shape |-> shape,
         data |-> [i \in Indices(shape) |-> t.data[<<i[1], r0 + i[2], c0 + i[3]>>]]]

\* Elementwise operations.
MapT(t, F(_)) == [t EXCEPT !.data = [i \in DOMAIN t.data |-> F(t.data[i])]]

\* torch.clamp(t, min=m)
Clamp(t, m) == MapT(t, LAMBDA v : Max2(v, m))

\* ArgumentAfterClamp for an in-place clamp (`clamp_`, or `out=` the argument).
ArgumentAfterClampInPlace(t, m) == Clamp(t, m)

\* What `torch.clamp(t, min=m)` leaves in the tensor t it was given: torch.clamp
\* builds a new tensor, and only the local name is rebound to it.
ArgumentAfterClamp(t, m) == t

\* Natural logarithm of a value in tenths, in thousandths.
LogMilli(v) ==
    CASE v = 5 -> -693
      [] v = 10 -> 0
      [] v = 11 -> 95
      [] v = 20 -> 693
      [] v = 30 -> 1099

Log(t) == MapT(t, LogMilli)

\* Logistic function of an integer logit, in thousandths.
SigmoidMilli(x) ==
    CASE x = -2 -> 119
      [] x = -1 -> 269
      [] x = 0 -> 500
      [] x = 1 -> 731
      [] x = 2 -> 881

Sigmoid(t) == MapT(t, SigmoidMilli)

(***************************************************************************)
(* The loss accumulator.  `loss = 0.0` is a plain float; adding            *)
(* factor * primitive(...) makes it a tensor.  The addends are kept in the *)
(* order they were added, each with its factor and the primitive call.     *)
(***************************************************************************)
PrimCall(name, pred, gt, mask) ==
    [prim |-> name, pred |-> pred, gt |-> gt, mask |-> mask]

FloatZero == [isFloat |-> TRUE, addends |-> <<>>, scales |-> <<>>]

\* loss += factor * term
AddTerm(l, factor, term) ==
    [l EXCEPT !.isFloat = FALSE,
              !.addends = Append(@, [factor |-> factor, term |-> term])]

\* loss *= factor
ScaleLoss(l, factor) == [l EXCEPT !.scales = Append(@, factor)]

\* FactorOn without the comparison: every term is added.
FactorOnAlways(factor) == TRUE

\* The gate of a term: `if self.config.<x>_factor > 0`.
FactorOn(factor) == factor > 0

(***************************************************************************)
(* AdaptiveScalingRoughLossFunction                                        *)
(***************************************************************************)
\* The values of AdaptiveScalingRoughLossFunctionConifg.
RoughDefaults ==
    [bce_negative_ratio |-> 300, bce_factor |-> 0, focal_factor |-> 500,
     dice_factor |-> 100, l1_factor |-> 100,
     downsampled_score_map_min |-> 11, char_height_feature_min |-> 11]

\* RoughShapesOk without the comparison of the two features (line 67).
RoughShapesOkNoCompare(mask_feature, height_feature, downsampled_shape) ==
    ShapeFrom1(mask_feature.shape) = <<1>> \o downsampled_shape

\* The two shape assertions at the head of the rough call.
RoughShapesOk(mask_feature, height_feature, downsampled_shape) ==
    /\ mask_feature.shape = height_feature.shape
    /\ ShapeFrom1(mask_feature.shape) = <<1>> \o downsampled_shape

\* L1Mask without the ground-truth mask.
L1MaskNoGt(height, score, mask, c) ==
    [none |-> FALSE, shape |-> height.shape,
     data |-> [i \in DOMAIN height.data |->
                 IF /\ height.data[i] > c.char_height_feature_min
                    /\ score.data[i] > c.downsampled_score_map_min
                 THEN 1 ELSE 0]]

\* The critical mask of the scale term, from the unclamped values.
L1Mask(height, score, mask, c) ==
    [none |-> FALSE, shape |-> height.shape,
     data |-> [i \in DOMAIN height.data |->
                 IF /\ height.data[i] > c.char_height_feature_min
                    /\ score.data[i] > c.downsampled_score_map_min
                    /\ mask.data[i] # 0
                 THEN 1 ELSE 0]]

\* Lines 67-68.
RoughCheckShapes ==
    /\ fn = "rough"
    /\ pc = "start"
    /\ IF RoughShapesOk(loc.rough_char_mask_feature, loc.rough_char_height_feature,
                        inp.downsampled_shape)
       THEN pc' = "checked" /\ UNCHANGED <<ret, raised>>
       ELSE /\ pc' = "failed"
            /\ ret' = "AssertionError"
            /\ raised' = IF loc.rough_char_mask_feature.shape
                               = loc.rough_char_height_feature.shape
                          THEN 68 ELSE 67
    /\ UNCHANGED <<fn, cfg, inp, loc, loss>>
    /\ UNCHANGED <<done, trainVars>>

\* Lines 71-86.
RoughSqueezeCrop ==
    /\ fn = "rough"
    /\ pc = "checked"
    /\ loc' = [loc EXCEPT
                 !.rough_char_mask_feature =
                     CropToBox(Squeeze(@, 1), inp.downsampled_core_box),
                 !.rough_char_height_feature =
                     CropToBox(Squeeze(@, 1), inp.downsampled_core_box)]
    /\ pc' = "cropped"
    /\ UNCHANGED <<fn, cfg, inp, loss, ret, raised>>
    /\ UNCHANGED <<done, trainVars>>

\* Lines 88-107: loss = 0.0, then the three mask terms.
RoughMaskLoss(l, c, mask_feature, gt_mask) ==
    LET l1 == IF FactorOn(c.bce_factor)
              THEN AddTerm(l, c.bce_factor,
                       PrimCall("weighted_bce_with_logits", mask_feature, gt_mask,
                                NoneTensor))
              ELSE l
        l2 == IF FactorOn(c.focal_factor)
              THEN AddTerm(l1, c.focal_factor,
                       PrimCall("focal_with_logits", mask_feature, gt_mask, NoneTensor))
              ELSE l1
    IN  IF FactorOn(c.dice_factor)
        THEN AddTerm(l2, c.dice_factor,
                 PrimCall("dice", Sigmoid(mask_feature), gt_mask, NoneTensor))
        ELSE l2

RoughMaskTerms ==
    /\ fn = "rough"
    /\ pc = "cropped"
    /\ loss' = RoughMaskLoss(FloatZero, cfg, loc.rough_char_mask_feature,
                             loc.downsampled_mask)
    /\ pc' = "mask_done"
    /\ UNCHANGED <<fn, cfg, inp, loc, ret, raised>>
    /\ UNCHANGED <<done, trainVars>>

\* Lines 110-128: the scale term.
RoughScaleTerm ==
    /\ fn = "rough"
    /\ pc = "mask_done"
    /\ IF FactorOn(cfg.l1_factor)
       THEN LET l1_mask == L1Mask(loc.rough_char_height_feature,
                                  loc.downsampled_score_map, loc.downsampled_mask, cfg)
                height == Clamp(loc.rough_char_height_feature,
                                cfg.char_height_feature_min)
                score == Clamp(loc.downsampled_score_map,
                               cfg.downsampled_score_map_min)
            IN  /\ loc' = [loc EXCEPT !.l1_mask = l1_mask,
                                      !.rough_char_height_feature = height,
                                      !.downsampled_score_map = score]
                /\ loss' = AddTerm(loss, cfg.l1_factor,
                               PrimCall("l1", Log(height), Log(score), l1_mask))
                /\ inp' = [inp EXCEPT
                             !.rough_char_height_feature =
                                 ArgumentAfterClamp(@, cfg.char_height_feature_min),
                             !.downsampled_score_map =
                                 ArgumentAfterClamp(@, cfg.downsampled_score_map_min)]
       ELSE UNCHANGED <<loc, loss, inp>>
    /\ pc' = "scale_done"
    /\ UNCHANGED <<fn, cfg, ret, raised>>
    /\ UNCHANGED <<done, trainVars>>

\* IsTensor without the check.
IsTensorUnchecked(l) == TRUE

\* `assert not isinstance(loss, float)`
IsTensor(l) == ~l.isFloat

\* Lines 130-131.
RoughReturn ==
    /\ fn = "rough"
    /\ pc = "scale_done"
    /\ IF IsTensor(loss)
       THEN pc' = "returned" /\ ret' = "loss" /\ raised' = raised
       ELSE pc' = "failed" /\ ret' = "AssertionError" /\ raised' = 130
    /\ UNCHANGED <<fn, cfg, inp, loc, loss>>
    /\ UNCHANGED <<done, trainVars>>

(***************************************************************************)
(* AdaptiveScalingPreciseLossFunction                                      *)
(***************************************************************************)
\* The values of AdaptiveScalingPreciseLossFunctionConifg.
PreciseDefaults ==
    [char_mask_focal_factor |-> 0, char_prob_l1_factor |-> 0,
     char_prob_pos_l2_factor |-> 200, char_prob_neg_l2_factor |-> 100,
     char_prob_wahr_factor |-> 0, char_up_left_offset_l1_factor |-> 100,
     char_up_left_distance_regulation_l1_factor |-> 100,
     char_corner_angle_cross_entropy_factor |-> 500,
     char_corner_distance_l1_factor |-> 100, loss_factor |-> 15]

\* GatherBatchOk without the check.
GatherBatchOkNoCheck(feature, label_point_y, label_point_x) == TRUE

\* The assertion of get_label_point_feature.
GatherBatchOk(feature, label_point_y, label_point_x) ==
    /\ feature.shape[1] = label_point_y.shape[1]
    /\ label_point_y.shape[1] = label_point_x.shape[1]

\* GetLabelPointFeature with the label points of sample 0 used for every sample.
GetLabelPointFeatureOfFirstSample(feature, label_point_y, label_point_x) ==
    LET shape == <<feature.shape[1], label_point_y.shape[2], feature.shape[2]>>
    IN  [none |-> FALSE, shape |-> shape,
         data |-> [i \in Indices(shape) |->
                     feature.data[<<i[1], i[3], label_point_y.data[<<0, i[2]>>],
                                    label_point_x.data[<<0, i[2]>>]>>]]]

\* feature[torch.arange(batch_size)[:, None], :, label_point_y, label_point_x]
GetLabelPointFeature(feature, label_point_y, label_point_x) ==
    LET shape == <<feature.shape[1], label_point_y.shape[2], feature.shape[2]>>
    IN  [none |-> FALSE, shape |-> shape,
         data |-> [i \in Indices(shape) |->
                     feature.data[<<i[1], i[3], label_point_y.data[<<i[1], i[2]>>],
                                    label_point_x.data[<<i[1], i[2]>>]>>]]]

\* t.transpose(1, 2) of a 3-dimensional tensor.
Transpose12(t) ==
    LET shape == <<t.shape[1], t.shape[3], t.shape[2]>>
    IN  [none |-> FALSE, shape |-> shape,
         data |-> [i \in Indices(shape) |-> t.data[<<i[1], i[3], i[2]>>]]]

\* t[:, :, start:stop] of a 3-dimensional tensor.
SliceLast(t, start, stop) ==
    LET c0 == SliceBound(start, t.shape[3])
        c1 == SliceBound(stop, t.shape[3])
        shape == <<t.shape[1], t.shape[2], Max2(c1 - c0, 0)>>
    IN  [none |-> FALSE, shape |-> shape,
         data |-> [i \in Indices(shape) |-> t.data[<<i[1], i[2], c0 + i[3]>>]]]

\* The integer part of the square root.
ISqrt(n) == CHOOSE r \in 0..n : r * r <= n /\ (r + 1) * (r + 1) > n

RECURSIVE SumSquares(_, _, _)
SumSquares(t, bp, c) ==
    IF c = 0 THEN 0
    ELSE LET v == t.data[<<bp[1], bp[2], c - 1>>]
         IN  v * v + SumSquares(t, bp, c - 1)

\* torch.linalg.norm(t, dim=2) of a (B, P, C) tensor.
NormDim2(t) ==
    LET shape == <<t.shape[1], t.shape[2]>>
    IN  [none |-> FALSE, shape |-> shape,
         data |-> [i \in Indices(shape) |-> ISqrt(SumSquares(t, i, t.shape[3]))]]

\* 1 - mask
Invert(mask) == MapT(mask, LAMBDA v : 1 - v)

\* The assertions at the head of the precise call.
PreciseShapesOk(mask_feature, prob_feature, downsampled_shape) ==
    /\ mask_feature.none \/ mask_feature.shape = prob_feature.shape
    /\ ShapeFrom1(prob_feature.shape) = <<1>> \o downsampled_shape

\* Lines 212-214.
PreciseCheckShapes ==
    /\ fn = "precise"
    /\ pc = "start"
    /\ IF PreciseShapesOk(loc.precise_char_mask_feature, loc.precise_char_prob_feature,
                          inp.downsampled_shape)
       THEN pc' = "checked" /\ UNCHANGED <<ret, raised>>
       ELSE /\ pc' = "failed"
            /\ ret' = "AssertionError"
            /\ raised' = IF \/ loc.precise_char_mask_feature.none
                             \/ loc.precise_char_mask_feature.shape
                                  = loc.precise_char_prob_feature.shape
                          THEN 214 ELSE 213
    /\ UNCHANGED <<fn, cfg, inp, loc, loss>>
    /\ UNCHANGED <<done, trainVars>>

\* Lines 216-231.
PreciseSqueezeCrop ==
    /\ fn = "precise"
    /\ pc = "checked"
    /\ loc' = [loc EXCEPT
                 !.precise_char_mask_feature =
                     IF @.none THEN @
                     ELSE CropToBox(Squeeze(@, 1), inp.downsampled_core_box),
                 !.precise_char_prob_feature =
                     CropToBox(Squeeze(@, 1), inp.downsampled_core_box)]
    /\ pc' = "cropped"
    /\ UNCHANGED <<fn, cfg, inp, loss, ret, raised>>
    /\ UNCHANGED <<done, trainVars>>

\* Lines 233-268: the three gathers, the transposes and the distance split.
PreciseGather ==
    /\ fn = "precise"
    /\ pc = "cropped"
    /\ IF /\ GatherBatchOk(inp.precise_char_up_left_corner_offset_feature,
                           inp.downsampled_label_point_y, inp.downsampled_label_point_x)
          /\ GatherBatchOk(inp.precise_char_corner_angle_feature,
                           inp.downsampled_label_point_y, inp.downsampled_label_point_x)
          /\ GatherBatchOk(inp.precise_char_corner_distance_feature,
                           inp.downsampled_label_point_y, inp.downsampled_label_point_x)
       THEN LET offset == GetLabelPointFeature(
                              inp.precise_char_up_left_corner_offset_feature,
                              inp.downsampled_label_point_y,
                              inp.downsampled_label_point_x)
                angle == GetLabelPointFeature(
                             inp.precise_char_corner_angle_feature,
                             inp.downsampled_label_point_y,
                             inp.downsampled_label_point_x)
                distance == GetLabelPointFeature(
                                inp.precise_char_corner_distance_feature,
                                inp.downsampled_label_point_y,
                                inp.downsampled_label_point_x)
            IN  /\ loc' = [loc EXCEPT
                             !.up_left_corner_offset_label_point_feature = offset,
                             !.corner_angle_label_point_feature = Transpose12(angle),
                             !.char_corner_angles = Transpose12(@),
                             !.corner_distance_label_point_feature = distance,
                             !.up_left_trimmed_corner_distance_label_point_feature =
                                 SliceLast(distance, 1, distance.shape[3]),
                             !.up_left_only_corner_distance_label_point_feature =
                                 SliceLast(distance, 0, 1)]
                /\ pc' = "gathered"
                /\ UNCHANGED <<ret, raised>>
       ELSE /\ pc' = "failed"
            /\ ret' = "AssertionError"
            /\ raised' = 177
            /\ loc' = loc
    /\ UNCHANGED <<fn, cfg, inp, loss>>
    /\ UNCHANGED <<done, trainVars>>

\* MaskGiven without the check.
MaskGivenUnchecked(mask_feature) == TRUE

\* `assert precise_char_mask_feature is not None`
MaskGiven(mask_feature) == ~mask_feature.none

\* Lines 270-277: loss = 0.0, then the mask focal term.
PreciseMaskTerm ==
    /\ fn = "precise"
    /\ pc = "gathered"
    /\ IF FactorOn(cfg.char_mask_focal_factor)
       THEN IF MaskGiven(loc.precise_char_mask_feature)
            THEN /\ loss' = AddTerm(FloatZero, cfg.char_mask_focal_factor,
                                PrimCall("char_mask_focal_with_logits",
                                         loc.precise_char_mask_feature,
                                         inp.downsampled_char_mask, NoneTensor))
                 /\ pc' = "mask_done"
                 /\ UNCHANGED <<ret, raised>>
            ELSE /\ loss' = FloatZero
                 /\ pc' = "failed"
                 /\ ret' = "AssertionError"
                 /\ raised' = 273
       ELSE /\ loss' = FloatZero
            /\ pc' = "mask_done"
            /\ UNCHANGED <<ret, raised>>
    /\ UNCHANGED <<fn, cfg, inp, loc>>
    /\ UNCHANGED <<done, trainVars>>

\* ProbPosMask with the mask of the negative term.
ProbPosMaskInverted(mask) == Invert(mask)

\* The mask of the positive L2 term.
ProbPosMask(mask) == mask

\* Lines 284-307: the four probability terms on the sigmoid of the crop.
ProbLoss(l, c, prob_sigmoid, score_map, mask) ==
    LET l1 == IF FactorOn(c.char_prob_l1_factor)
              THEN AddTerm(l, c.char_prob_l1_factor,
                       PrimCall("char_prob_l1", prob_sigmoid, score_map, mask))
              ELSE l
        l2 == IF FactorOn(c.char_prob_pos_l2_factor)
              THEN AddTerm(l1, c.char_prob_pos_l2_factor,
                       PrimCall("char_prob_l2", prob_sigmoid, score_map,
                                ProbPosMask(mask)))
              ELSE l1
        l3 == IF FactorOn(c.char_prob_neg_l2_factor)
              THEN AddTerm(l2, c.char_prob_neg_l2_factor,
                       PrimCall("char_prob_l2", prob_sigmoid, score_map, Invert(mask)))
              ELSE l2
    IN  IF FactorOn(c.char_prob_wahr_factor)
        THEN AddTerm(l3, c.char_prob_wahr_factor,
                 PrimCall("char_prob_wahr", prob_sigmoid, score_map, NoneTensor))
        ELSE l3

\* Lines 279-307.
PreciseProbTerms ==
    /\ fn = "precise"
    /\ pc = "mask_done"
    /\ IF \/ FactorOn(cfg.char_prob_l1_factor)
          \/ FactorOn(cfg.char_prob_pos_l2_factor)
          \/ FactorOn(cfg.char_prob_neg_l2_factor)
          \/ FactorOn(cfg.char_prob_wahr_factor)
       THEN LET prob_sigmoid == Sigmoid(loc.precise_char_prob_feature)
            IN  /\ loc' = [loc EXCEPT !.precise_char_prob_feature_sigmoid = prob_sigmoid]
                /\ loss' = ProbLoss(loss, cfg, prob_sigmoid,
                                    inp.downsampled_char_prob_score_map,
                                    inp.downsampled_char_mask)
       ELSE UNCHANGED <<loc, loss>>
    /\ pc' = "prob_done"
    /\ UNCHANGED <<fn, cfg, inp, ret, raised>>
    /\ UNCHANGED <<done, trainVars>>

\* DistanceRegulationGt with a ground-truth channel as the target.
DistanceRegulationGtFromLabels(l, i) == SliceLast(i.char_corner_distances, 0, 1)

\* The target handed to the distance regulation term (lines 322-325).
DistanceRegulationGt(l, i) ==
    l.up_left_only_corner_distance_label_point_feature

\* Lines 309-339: the four label point terms.
PointLoss(l, c, lc, i) ==
    LET l1 == IF FactorOn(c.char_up_left_offset_l1_factor)
              THEN AddTerm(l, c.char_up_left_offset_l1_factor,
                       PrimCall("char_up_left_offset_l1",
                                lc.up_left_corner_offset_label_point_feature,
                                i.char_up_left_offsets, NoneTensor))
              ELSE l
        l2 == IF FactorOn(c.char_up_left_distance_regulation_l1_factor)
              THEN AddTerm(l1, c.char_up_left_distance_regulation_l1_factor,
                       PrimCall("char_up_left_distance_regulation_l1",
                                NormDim2(lc.up_left_corner_offset_label_point_feature),
                                Squeeze(DistanceRegulationGt(lc, i), 2), NoneTensor))
              ELSE l1
        l3 == IF FactorOn(c.char_corner_angle_cross_entropy_factor)
              THEN AddTerm(l2, c.char_corner_angle_cross_entropy_factor,
                       PrimCall("char_corner_angle_cross_entropy",
                                lc.corner_angle_label_point_feature,
                                lc.char_corner_angles, NoneTensor))
              ELSE l2
    IN  IF FactorOn(c.char_corner_distance_l1_factor)
        THEN AddTerm(l3, c.char_corner_distance_l1_factor,
                 PrimCall("char_corner_distance_l1",
                          lc.up_left_trimmed_corner_distance_label_point_feature,
                          i.char_corner_distances, NoneTensor))
        ELSE l3

PrecisePointTerms ==
    /\ fn = "precise"
    /\ pc = "prob_done"
    /\ loss' = PointLoss(loss, cfg, loc, inp)
    /\ pc' = "point_done"
    /\ UNCHANGED <<fn, cfg, inp, loc, ret, raised>>
    /\ UNCHANGED <<done, trainVars>>

\* BalanceGradient with loss_factor applied twice.
BalanceGradientTwice(l, c) == ScaleLoss(ScaleLoss(l, c.loss_factor), c.loss_factor)

\* Line 344: `loss *= self.config.loss_factor`.
BalanceGradient(l, c) == ScaleLoss(l, c.loss_factor)

\* Lines 341-346.
PreciseReturn ==
    /\ fn = "precise"
    /\ pc = "point_done"
    /\ IF IsTensor(loss)
       THEN /\ pc' = "returned"
            /\ ret' = "loss"
            /\ loss' = BalanceGradient(loss, cfg)
            /\ raised' = raised
       ELSE /\ pc' = "failed"
            /\ ret' = "AssertionError"
            /\ loss' = loss
            /\ raised' = 341
    /\ UNCHANGED <<fn, cfg, inp, loc>>
    /\ UNCHANGED <<done, trainVars>>

(***************************************************************************)
(* The value of a loss whose terms are all L2 terms, as an exact fraction  *)
(* <<numerator, denominator>> in lowest terms (the unit is the square of   *)
(* a thousandth).                                                          *)
(***************************************************************************)
RECURSIVE GCD(_, _)
GCD(a, b) == IF b = 0 THEN a ELSE GCD(b, a % b)

Reduce(q) ==
    LET g == GCD(IF q[1] < 0 THEN -q[1] ELSE q[1], q[2])
    IN  <<q[1] \div g, q[2] \div g>>

RatMul(p, q) == Reduce(<<p[1] * q[1], p[2] * q[2]>>)

RatAdd(p, q) == Reduce(<<p[1] * q[2] + q[1] * p[2], p[2] * q[2]>>)

\* A factor in hundredths as a fraction.
Factor(f) == Reduce(<<f, 100>>)

RECURSIVE SumOver(_, _, _)
SumOver(S, F(_), acc) ==
    IF S = {} THEN acc
    ELSE LET i == CHOOSE j \in S : TRUE
         IN  SumOver(S \ {i}, F, acc + F(i))

\* L2LossFunction: the mean of the squared error over the elements the mask keeps.
L2Mean(pred, gt, mask) ==
    LET kept == {i \in DOMAIN pred.data : mask.data[i] # 0}
    IN  Reduce(<<SumOver(kept,
                         LAMBDA i : (pred.data[i] - gt.data[i]) * (pred.data[i] - gt.data[i]),
                         0),
                 Cardinality(kept)>>)

RECURSIVE SumTerms(_)
SumTerms(addends) ==
    IF Len(addends) = 0 THEN <<0, 1>>
    ELSE LET a == Head(addends)
         IN  RatAdd(RatMul(Factor(a.factor), L2Mean(a.term.pred, a.term.gt, a.term.mask)),
                    SumTerms(Tail(addends)))

RECURSIVE ApplyScales(_, _)
ApplyScales(v, scales) ==
    IF Len(scales) = 0 THEN v
    ELSE ApplyScales(RatMul(v, Factor(Head(scales))), Tail(scales))

LossValue(l) == ApplyScales(SumTerms(l.addends), l.scales)

(***************************************************************************)
(* The inputs of a call.                                                   *)
(***************************************************************************)
Boxes(H, W) ==
    {[up |-> u, down |-> d, left |-> l, right |-> r] :
        u \in 0..(H - 1), d \in 0..(H - 1), l \in 0..(W - 1), r \in 0..(W - 1)}

ValidBoxes(H, W) ==
    {b \in Boxes(H, W) : b.up <= b.down /\ b.left <= b.right}

BoxShape(B, box) == <<B, box.down - box.up + 1, box.right - box.left + 1>>

\* The shapes a (B, 1, H, W) feature argument is given; the first is the valid one.
FeatureShapes(B, H, W) ==
    {<<B, 1, H, W>>, <<B, 2, H, W>>, <<B, 1, H, W + 1>>, <<B, H, W>>}

LogitVals == <<-2, -1, 0, 1, 2>>

HeightVals == <<5, 11, 20>>

ScoreVals == <<10, 11, 30>>

Cycle(vals, i, shape, seed) == vals[((Lin(i, shape) + seed) % Len(vals)) + 1]

RoughConfigs ==
    {[RoughDefaults EXCEPT !.bce_factor = b, !.focal_factor = f,
                           !.dice_factor = d, !.l1_factor = l] :
        b \in {0, 100}, f \in {0, 500}, d \in {0, 100}, l \in {0, 100}}

\* The state at the start of a rough call.  sh, ss and sm shift the values of
\* the height feature, the score map and the ground-truth mask.
RoughStart(B, H, W, box, mshape, hshape, c, sh, ss, sm) ==
    /\ fn = "rough"
    /\ pc = "start"
    /\ cfg = c
    /\ inp = [rough_char_mask_feature |->
                  MkTensor(mshape, LAMBDA i : Cycle(LogitVals, i, mshape, 0)),
              rough_char_height_feature |->
                  MkTensor(hshape, LAMBDA i : Cycle(HeightVals, i, hshape, sh)),
              downsampled_mask |->
                  MkTensor(BoxShape(B, box),
                           LAMBDA i : Cycle(<<0, 1>>, i, BoxShape(B, box), sm)),
              downsampled_score_map |->
                  MkTensor(BoxShape(B, box),
                           LAMBDA i : Cycle(ScoreVals, i, BoxShape(B, box), ss)),
              downsampled_shape |-> <<H, W>>,
              downsampled_core_box |-> box]
    /\ loc = [rough_char_mask_feature |-> inp.rough_char_mask_feature,
              rough_char_height_feature |-> inp.rough_char_height_feature,
              downsampled_mask |-> inp.downsampled_mask,
              downsampled_score_map |-> inp.downsampled_score_map,
              l1_mask |-> NoneTensor]
    /\ loss = FloatZero
    /\ ret = "none"
    /\ raised = 0

FullBox(H, W) == [up |-> 0, down |-> H - 1, left |-> 0, right |-> W - 1]

\* Every configuration on every feature size, the core box the whole feature.
RoughInitConfigs ==
    \E B \in 1..MaxB, H \in 1..MaxH, W \in 1..MaxW :
    \E c \in RoughConfigs :
        RoughStart(B, H, W, FullBox(H, W), <<B, 1, H, W>>, <<B, 1, H, W>>, c, 0, 0, 0)

\* Every core box and data pattern, with the default configuration.
RoughInitData ==
    \E B \in 1..MaxB, H \in 1..MaxH, W \in 1..MaxW :
    \E box \in ValidBoxes(H, W) :
    \E sh \in 0..2, ss \in 0..2, sm \in 0..1 :
        RoughStart(B, H, W, box, <<B, 1, H, W>>, <<B, 1, H, W>>, RoughDefaults,
                   sh, ss, sm)

\* Ill-shaped mask or height features.
RoughInitShapes ==
    \E B \in 1..MaxB, H \in 1..MaxH, W \in 1..MaxW :
    \E mshape \in FeatureShapes(B, H, W), hshape \in FeatureShapes(B, H, W) :
        /\ mshape # <<B, 1, H, W>> \/ hshape # <<B, 1, H, W>>
        /\ RoughStart(B, H, W, FullBox(H, W), mshape, hshape, RoughDefaults, 0, 0, 0)

RoughInit == RoughInitConfigs \/ RoughInitData \/ RoughInitShapes

PreciseConfigs ==
    {[char_mask_focal_factor |-> f1, char_prob_l1_factor |-> f2,
      char_prob_pos_l2_factor |-> f3, char_prob_neg_l2_factor |-> f4,
      char_prob_wahr_factor |-> f5, char_up_left_offset_l1_factor |-> f6,
      char_up_left_distance_regulation_l1_factor |-> f7,
      char_corner_angle_cross_entropy_factor |-> f8,
      char_corner_distance_l1_factor |-> f9, loss_factor |-> lf] :
        f1 \in {0, 100}, f2 \in {0, 100}, f3 \in {0, 200}, f4 \in {0, 100},
        f5 \in {0, 100}, f6 \in {0, 100}, f7 \in {0, 100}, f8 \in {0, 500},
        f9 \in {0, 100}, lf \in {15, 100}}

ProbVals == <<0, 500, 1000>>

\* The state at the start of a precise call.  mshape is <<>> for an absent mask
\* feature; by and bx are the batch sizes of the label point tensors.
PreciseStart(B, H, W, box, P, mshape, pshape, by, bx, c, sp, sm, sl, sg) ==
    /\ fn = "precise"
    /\ pc = "start"
    /\ cfg = c
    /\ inp = [precise_char_mask_feature |->
                  IF mshape = <<>> THEN NoneTensor
                  ELSE MkTensor(mshape, LAMBDA i : Cycle(LogitVals, i, mshape, 1)),
              precise_char_prob_feature |->
                  MkTensor(pshape, LAMBDA i : Cycle(LogitVals, i, pshape, sl)),
              precise_char_up_left_corner_offset_feature |->
                  MkTensor(<<B, 2, H, W>>, LAMBDA i : Lin(i, <<B, 2, H, W>>)),
              precise_char_corner_angle_feature |->
                  MkTensor(<<B, 4, H, W>>, LAMBDA i : Lin(i, <<B, 4, H, W>>) - 8),
              precise_char_corner_distance_feature |->
                  MkTensor(<<B, 4, H, W>>, LAMBDA i : 100 + Lin(i, <<B, 4, H, W>>)),
              downsampled_char_prob_score_map |->
                  MkTensor(BoxShape(B, box),
                           LAMBDA i : Cycle(ProbVals, i, BoxShape(B, box), sg)),
              downsampled_char_mask |->
                  MkTensor(BoxShape(B, box),
                           LAMBDA i : Cycle(<<0, 1, 1>>, i, BoxShape(B, box), sm)),
              downsampled_shape |-> <<H, W>>,
              downsampled_core_box |-> box,
              downsampled_label_point_y |->
                  MkTensor(<<by, P>>, LAMBDA i : (Lin(i, <<by, P>>) + sp) % H),
              downsampled_label_point_x |->
                  MkTensor(<<bx, P>>, LAMBDA i : (Lin(i, <<bx, P>>) + sp + 1) % W),
              char_up_left_offsets |->
                  MkTensor(<<B, P, 2>>, LAMBDA i : 50 + Lin(i, <<B, P, 2>>)),
              char_corner_angles |->
                  MkTensor(<<B, P, 4>>, LAMBDA i : IF i[3] = (i[2] + sp) % 4 THEN 1 ELSE 0),
              char_corner_distances |->
                  MkTensor(<<B, P, 3>>, LAMBDA i : 200 + Lin(i, <<B, P, 3>>))]
    /\ loc = [precise_char_mask_feature |-> inp.precise_char_mask_feature,
              precise_char_prob_feature |-> inp.precise_char_prob_feature,
              char_corner_angles |-> inp.char_corner_angles,
              up_left_corner_offset_label_point_feature |-> NoneTensor,
              corner_angle_label_point_feature |-> NoneTensor,
              corner_distance_label_point_feature |-> NoneTensor,
              up_left_trimmed_corner_distance_label_point_feature |-> NoneTensor,
              up_left_only_corner_distance_label_point_feature |-> NoneTensor,
              precise_char_prob_feature_sigmoid |-> NoneTensor]
    /\ loss = FloatZero
    /\ ret = "none"
    /\ raised = 0

\* Every geometry, with the default configuration; well-shaped features, the
\* mask feature present or absent.
PreciseInitGeometry ==
    \E B \in 1..MaxB, H \in 1..MaxH, W \in 1..MaxW, P \in 1..MaxP :
    \E box \in ValidBoxes(H, W) :
    \E mshape \in {<<>>, <<B, 1, H, W>>} :
    \E sp \in 0..1 :
        PreciseStart(B, H, W, box, P, mshape, <<B, 1, H, W>>, B, B, PreciseDefaults,
                     sp, 0, 0, 0)

\* Ill-shaped mask or probability features, or label points of another batch size.
PreciseInitShapes ==
    \E B \in 1..MaxB, H \in 1..MaxH, W \in 1..MaxW :
    \E mshape \in {<<>>} \cup FeatureShapes(B, H, W), pshape \in FeatureShapes(B, H, W) :
    \E by \in {B, B + 1}, bx \in {B, B + 1} :
        /\ \/ pshape # <<B, 1, H, W>>
           \/ mshape \notin {<<>>, <<B, 1, H, W>>}
           \/ by # B
           \/ bx # B
        /\ PreciseStart(B, H, W, FullBox(H, W), MaxP, mshape, pshape, by, bx,
                        PreciseDefaults, 0, 0, 0, 0)

\* Every configuration, on the largest geometry.
PreciseInitConfigs ==
    \E c \in PreciseConfigs :
    \E mshape \in {<<>>, <<MaxB, 1, MaxH, MaxW>>} :
        PreciseStart(MaxB, MaxH, MaxW, FullBox(MaxH, MaxW), MaxP, mshape,
                     <<MaxB, 1, MaxH, MaxW>>, MaxB, MaxB, c, 0, 0, 0, 0)

PreciseInit == PreciseInitGeometry \/ PreciseInitShapes \/ PreciseInitConfigs

\* The end-to-end scenario: a batch of 1, a 4 x 4 feature, the core box the whole
\* feature, and every term off but the positive L2 term at 2.0.
ScenarioConfigs ==
    {[char_mask_focal_factor |-> 0, char_prob_l1_factor |-> 0,
      char_prob_pos_l2_factor |-> 200, char_prob_neg_l2_factor |-> 0,
      char_prob_wahr_factor |-> 0, char_up_left_offset_l1_factor |-> 0,
      char_up_left_distance_regulation_l1_factor |-> 0,
      char_corner_angle_cross_entropy_factor |-> 0,
      char_corner_distance_l1_factor |-> 0, loss_factor |-> lf] :
        lf \in {PreciseDefaults.loss_factor, 100}}

ScenarioInit ==
    \E P \in 1..MaxP :
    \E mshape \in {<<>>, <<1, 1, 4, 4>>} :
    \E c \in ScenarioConfigs :
    \E sm \in 0..2, sl \in 0..4, sg \in 0..2 :
        /\ PreciseStart(1, 4, 4, FullBox(4, 4), P, mshape, <<1, 1, 4, 4>>, 1, 1, c,
                        0, sm, sl, sg)
        /\ done = {}
        /\ TrainIdle

(***************************************************************************)
(* Several calls on one loss function object.  The caller passes either    *)
(* the tensors it passed before or tensors holding other values; the       *)
(* object (self.config and the primitives built in __init__) stays.        *)
(***************************************************************************)
MaxCalls == 3

Finished == {"returned", "failed"}

\* The tensors of another batch: the same shapes, the values shifted by k.
OtherBatch(f, args, k) ==
    IF f = "rough"
    THEN LET hshape == args.rough_char_height_feature.shape
             sshape == args.downsampled_score_map.shape
         IN  [args EXCEPT
                !.rough_char_height_feature =
                    MkTensor(hshape, LAMBDA i : Cycle(HeightVals, i, hshape, k)),
                !.downsampled_score_map =
                    MkTensor(sshape, LAMBDA i : Cycle(ScoreVals, i, sshape, k))]
    ELSE LET pshape == args.precise_char_prob_feature.shape
         IN  [args EXCEPT
                !.precise_char_prob_feature =
                    MkTensor(pshape, LAMBDA i : Cycle(LogitVals, i, pshape, k))]

\* The parameters of __call__ bound to the arguments (lines 53-62, 181-211).
BindParameters(f, args) ==
    IF f = "rough"
    THEN [rough_char_mask_feature |-> args.rough_char_mask_feature,
          rough_char_height_feature |-> args.rough_char_height_feature,
          downsampled_mask |-> args.downsampled_mask,
          downsampled_score_map |-> args.downsampled_score_map,
          l1_mask |-> NoneTensor]
    ELSE [precise_char_mask_feature |-> args.precise_char_mask_feature,
          precise_char_prob_feature |-> args.precise_char_prob_feature,
          char_corner_angles |-> args.char_corner_angles,
          up_left_corner_offset_label_point_feature |-> NoneTensor,
          corner_angle_label_point_feature |-> NoneTensor,
          corner_distance_label_point_feature |-> NoneTensor,
          up_left_trimmed_corner_distance_label_point_feature |-> NoneTensor,
          up_left_only_corner_distance_label_point_feature |-> NoneTensor,
          precise_char_prob_feature_sigmoid |-> NoneTensor]

\* The caller calls the object again once a call has returned or raised.  The
\* object is the same one, so fn and cfg stay; whatever the finished call left
\* in `loss` is still there until the new call assigns it.
CallAgain ==
    /\ pc \in Finished
    /\ Cardinality(done) < MaxCalls - 1
    /\ done' = done \cup {[args |-> inp, ret |-> ret, raised |-> raised,
                           loss |-> loss]}
    /\ \E args \in {inp} \cup {OtherBatch(fn, inp, k) : k \in 0..2} :
          /\ inp' = args
          /\ loc' = BindParameters(fn, args)
    /\ pc' = "start"
    /\ ret' = "none"
    /\ raised' = 0
    /\ UNCHANGED <<fn, cfg, loss>>
    /\ UNCHANGED trainVars

CallsInit ==
    /\ \E H \in 1..MaxH, W \in 1..MaxW :
       \E k \in 0..2 :
          \/ \E c \in {RoughDefaults, [RoughDefaults EXCEPT !.l1_factor = 0]} :
                RoughStart(1, H, W, FullBox(H, W), <<1, 1, H, W>>, <<1, 1, H, W>>, c,
                           k, k, 0)
          \/ \E mshape \in {<<>>, <<1, 1, H, W>>} :
                PreciseStart(1, H, W, FullBox(H, W), 1, mshape, <<1, 1, H, W>>, 1, 1,
                             [PreciseDefaults EXCEPT !.char_mask_focal_factor = 100],
                             0, 0, k, 0)
    /\ done = {}
    /\ TrainIdle

Init ==
    /\ RoughInit \/ PreciseInit
    /\ done = {}
    /\ TrainIdle

NextRough ==
    \/ RoughCheckShapes
    \/ RoughSqueezeCrop
    \/ RoughMaskTerms
    \/ RoughScaleTerm
    \/ RoughReturn

NextPrecise ==
    \/ PreciseCheckShapes
    \/ PreciseSqueezeCrop
    \/ PreciseGather
    \/ PreciseMaskTerm
    \/ PreciseProbTerms
    \/ PrecisePointTerms
    \/ PreciseReturn

Next == NextRough \/ NextPrecise

Spec == Init /\ [][Next]_vars

SpecScenario == ScenarioInit /\ [][NextPrecise]_vars

NextCalls == NextRough \/ NextPrecise \/ CallAgain

SpecCalls == CallsInit /\ [][NextCalls]_vars

(***************************************************************************)
(* train() of experiment/adaptive_scaling/train.py, from the restore       *)
(* logic (line 243) to the end of the epoch loop (line 366).  The model,   *)
(* the optimizer, the scheduler and the data loaders are collaborators:    *)
(* a call to one of them is recorded in `steps`, with the mode the model   *)
(* was in.  The loss of a batch is any float.                              *)
(***************************************************************************)
MaxEpochs == 2

MaxTrainBatches == 2

MaxDevBatches == 2

\* Floats: a fraction n/d, +infinity, or NaN.
Num(n) == [kind |-> "num", n |-> n, d |-> 1]

Inf == [kind |-> "inf", n |-> 0, d |-> 1]

NaN == [kind |-> "nan", n |-> 0, d |-> 1]

\* `a < b` on floats: false when either side is NaN.
FloatLess(a, b) ==
    /\ a.kind # "nan"
    /\ b.kind # "nan"
    /\ \/ a.kind = "num" /\ b.kind = "inf"
       \/ a.kind = "num" /\ b.kind = "num" /\ a.n * b.d < b.n * a.d

RECURSIVE FloatSum(_)
FloatSum(xs) ==
    IF xs = <<>> THEN <<0, 1>>
    ELSE RatAdd(<<Head(xs).n, Head(xs).d>>, FloatSum(Tail(xs)))

\* statistics.mean of a non-empty list of floats.
FloatMean(xs) ==
    IF \E i \in DOMAIN xs : xs[i].kind = "nan" THEN NaN
    ELSE IF \E i \in DOMAIN xs : xs[i].kind = "inf" THEN Inf
    ELSE LET q == RatMul(FloatSum(xs), <<1, Len(xs)>>)
         IN  [kind |-> "num", n |-> q[1], d |-> q[2]]

\* The losses a batch can have.
Losses == {Num(1), Num(2), Inf, NaN}

TRAIN_LOSS == "train_loss"

DEV_LOSS == "dev_loss"

MetricsTag == {TRAIN_LOSS, DEV_LOSS}

\* Metrics(MetricsTag, avg_num_batches): no value under any tag yet.
MetricsNew == [tag \in MetricsTag |-> <<>>]

\* metrics.update(tag, value): the value joins those kept under the tag, of which
\* the last avg_num_batches stay; their average is what it returns.
MetricsUpdate(m, tag, value, avg_num_batches) ==
    LET all == Append(m[tag], value)
    IN  [m EXCEPT ![tag] = SubSeq(all, Max2(1, Len(all) - avg_num_batches + 1),
                                  Len(all))]

\* An Optional argument: <<>> is None, <<v>> is the value v.
None == <<>>

\* `if restore_state_dict_path:` is false for None and for the empty string.
Truthy(path) == path # None /\ path[1] # ""

\* StartEpoch that resumes at the restored epoch itself and ignores
\* reset_epoch_idx.
StartEpochAtRestored(c) ==
    IF Truthy(c.restore_state_dict_path)
    THEN c.restore_state.epoch_idx
    ELSE 0

\* Lines 244-253: the epoch the loop starts at.
StartEpoch(c) ==
    IF Truthy(c.restore_state_dict_path) /\ ~c.reset_epoch_idx
    THEN c.restore_state.epoch_idx + 1
    ELSE 0

\* An entry of `steps`: the operation, the phase and batch it belongs to, and the
\* mode of the model and of autograd when it ran.
Step(op, phase) ==
    [op |-> op, phase |-> phase, batch |-> batch_idx,
     training |-> training, grad |-> grad_enabled]

\* Lines 243-281.
TrainSetup ==
    /\ tpc = "setup"
    /\ metrics' = MetricsNew
    /\ epoch_idx' = StartEpoch(tcfg)
    /\ best_dev_loss' = Inf
    /\ tpc' = "epoch_head"
    /\ UNCHANGED <<tcfg, batch_idx, training, grad_enabled, dev_losses, saved,
                   sched_arg, steps, dev_history>>
    /\ UNCHANGED callVars

\* model_jit.train() without the call: the mode stays what it was.
TrainModeKept(m) == m

\* model_jit.train(): the model is in training mode whatever it was in.
TrainMode(m) == TRUE

\* Lines 283-286: the loop test, then training mode and autograd on.
EpochHead ==
    /\ tpc = "epoch_head"
    /\ IF epoch_idx < tcfg.num_epochs
       THEN /\ training' = TrainMode(training)
            /\ grad_enabled' = TRUE
            /\ batch_idx' = 0
            /\ steps' = <<>>
            /\ tpc' = "train_fetch"
       ELSE /\ tpc' = "done"
            /\ UNCHANGED <<training, grad_enabled, batch_idx, steps>>
    /\ UNCHANGED <<tcfg, epoch_idx, best_dev_loss, dev_losses, metrics, saved,
                   sched_arg, dev_history>>
    /\ UNCHANGED callVars

\* Line 288: the next batch of train_data_loader, until the loader is
\* exhausted; batch_idx counts from 1.  How many batches the loader yields is
\* decided by the dataset and the DataLoader, not by this loop: it need not be
\* train_num_batches.
TrainFetch ==
    /\ tpc = "train_fetch"
    /\ IF batch_idx < tcfg.train_loader_batches
       THEN batch_idx' = batch_idx + 1 /\ tpc' = "train_forward"
       ELSE batch_idx' = batch_idx /\ tpc' = "eval_head"
    /\ UNCHANGED <<tcfg, epoch_idx, training, grad_enabled, best_dev_loss, dev_losses,
                   metrics, saved, sched_arg, steps, dev_history>>
    /\ UNCHANGED callVars

\* Lines 289-290.
TrainForward ==
    /\ tpc = "train_forward"
    /\ steps' = Append(steps, Step("forward", "train"))
    /\ tpc' = "train_loss"
    /\ UNCHANGED <<tcfg, epoch_idx, batch_idx, training, grad_enabled, best_dev_loss,
                   dev_losses, metrics, saved, sched_arg, dev_history>>
    /\ UNCHANGED callVars

\* Lines 292-300.
TrainLoss ==
    /\ tpc = "train_loss"
    /\ \E l \in Losses :
          metrics' = MetricsUpdate(metrics, TRAIN_LOSS, l, tcfg.avg_num_batches)
    /\ steps' = Append(steps, Step("loss", "train"))
    /\ tpc' = "backward"
    /\ UNCHANGED <<tcfg, epoch_idx, batch_idx, training, grad_enabled, best_dev_loss,
                   dev_losses, saved, sched_arg, dev_history>>
    /\ UNCHANGED callVars

\* Line 301.
TrainBackward ==
    /\ tpc = "backward"
    /\ steps' = Append(steps, Step("backward", "train"))
    /\ tpc' = "clip"
    /\ UNCHANGED <<tcfg, epoch_idx, batch_idx, training, grad_enabled, best_dev_loss,
                   dev_losses, metrics, saved, sched_arg, dev_history>>
    /\ UNCHANGED callVars

\* `optimizer_config.clip_grad_norm_max_norm is not None`
ClipWanted(max_norm) == max_norm # None

\* Lines 303-307.
TrainClip ==
    /\ tpc = "clip"
    /\ steps' = IF ClipWanted(tcfg.clip_grad_norm_max_norm)
                THEN Append(steps, Step("clip_grad_norm", "train"))
                ELSE steps
    /\ tpc' = "optimizer_step"
    /\ UNCHANGED <<tcfg, epoch_idx, batch_idx, training, grad_enabled, best_dev_loss,
                   dev_losses, metrics, saved, sched_arg, dev_history>>
    /\ UNCHANGED callVars

\* Line 309.
TrainOptimizerStep ==
    /\ tpc = "optimizer_step"
    /\ steps' = Append(steps, Step("optimizer_step", "train"))
    /\ tpc' = "scheduler_step"
    /\ UNCHANGED <<tcfg, epoch_idx, batch_idx, training, grad_enabled, best_dev_loss,
                   dev_losses, metrics, saved, sched_arg, dev_history>>
    /\ UNCHANGED callVars

\* SchedulerArgument from batch_idx, without the `- 1`.
SchedulerArgumentFromOne(e, b, n) == <<e * n + b, n>>

\* `epoch_idx + (batch_idx - 1) / train_num_batches`, as the fraction
\* <<numerator, denominator>>.
SchedulerArgument(e, b, n) == <<e * n + (b - 1), n>>

\* Lines 310-312.
TrainSchedulerStep ==
    /\ tpc = "scheduler_step"
    /\ sched_arg' = SchedulerArgument(epoch_idx, batch_idx, tcfg.train_num_batches)
    /\ steps' = Append(steps, Step("scheduler_step", "train"))
    /\ tpc' = "zero_grad"
    /\ UNCHANGED <<tcfg, epoch_idx, batch_idx, training, grad_enabled, best_dev_loss,
                   dev_losses, metrics, saved, dev_history>>
    /\ UNCHANGED callVars

\* `batch_idx % 4 == 0 or batch_idx == epoch_config.train_num_batches`
TrainLogDue(b, n) == b % 4 = 0 \/ b = n

\* Lines 313-321.
TrainZeroGrad ==
    /\ tpc = "zero_grad"
    /\ steps' = IF TrainLogDue(batch_idx, tcfg.train_num_batches)
                THEN steps \o <<Step("zero_grad", "train"), Step("log", "train")>>
                ELSE Append(steps, Step("zero_grad", "train"))
    /\ tpc' = "train_fetch"
    /\ UNCHANGED <<tcfg, epoch_idx, batch_idx, training, grad_enabled, best_dev_loss,
                   dev_losses, metrics, saved, sched_arg, dev_history>>
    /\ UNCHANGED callVars

\* Lines 323-327: evaluation mode, autograd off, an empty dev_losses.
EvalHead ==
    /\ tpc = "eval_head"
    /\ training' = FALSE
    /\ grad_enabled' = FALSE
    /\ dev_losses' = <<>>
    /\ batch_idx' = 0
    /\ tpc' = "eval_fetch"
    /\ UNCHANGED <<tcfg, epoch_idx, best_dev_loss, metrics, saved, sched_arg, steps,
                   dev_history>>
    /\ UNCHANGED callVars

\* Line 328: the next batch of dev_data_loader, until the loader is exhausted;
\* it may yield more or fewer batches than dev_num_batches, also none.
EvalFetch ==
    /\ tpc = "eval_fetch"
    /\ IF batch_idx < tcfg.dev_loader_batches
       THEN batch_idx' = batch_idx + 1 /\ tpc' = "eval_forward"
       ELSE batch_idx' = batch_idx /\ tpc' = "checkpoint"
    /\ UNCHANGED <<tcfg, epoch_idx, training, grad_enabled, best_dev_loss, dev_losses,
                   metrics, saved, sched_arg, steps, dev_history>>
    /\ UNCHANGED callVars

\* Lines 329-330.
EvalForward ==
    /\ tpc = "eval_forward"
    /\ steps' = Append(steps, Step("forward", "eval"))
    /\ tpc' = "eval_loss"
    /\ UNCHANGED <<tcfg, epoch_idx, batch_idx, training, grad_enabled, best_dev_loss,
                   dev_losses, metrics, saved, sched_arg, dev_history>>
    /\ UNCHANGED callVars

\* The tag line 343 passes to metrics.update.
EvalMetricsTag == TRAIN_LOSS

\* `batch_idx % 4 == 0 or batch_idx >= epoch_config.dev_num_batches`
EvalLogDue(b, n) == b % 4 = 0 \/ b >= n

\* Lines 332-349.
EvalLoss ==
    /\ tpc = "eval_loss"
    /\ \E l \in Losses :
          /\ dev_losses' = Append(dev_losses, l)
          /\ metrics' = MetricsUpdate(metrics, EvalMetricsTag, l, tcfg.avg_num_batches)
    /\ steps' = IF EvalLogDue(batch_idx, tcfg.dev_num_batches)
                THEN steps \o <<Step("loss", "eval"), Step("log", "eval")>>
                ELSE Append(steps, Step("loss", "eval"))
    /\ tpc' = "eval_fetch"
    /\ UNCHANGED <<tcfg, epoch_idx, batch_idx, training, grad_enabled, best_dev_loss,
                   saved, sched_arg, dev_history>>
    /\ UNCHANGED callVars

\* Improved that also takes an equal loss.
ImprovedOrEqual(dev_loss, best) == FloatLess(dev_loss, best) \/ dev_loss = best

\* `dev_loss < best_dev_loss`
Improved(dev_loss, best) == FloatLess(dev_loss, best)

\* The RestoreState of lines 358-363, of which the model tracks epoch_idx.
RestoreState(e) == [epoch_idx |-> e]

\* Lines 351-366: the mean, the checkpoint when it is the best so far, and the
\* next epoch.  statistics.mean raises StatisticsError on an empty dev_losses,
\* and train() ends there.
Checkpoint ==
    /\ tpc = "checkpoint"
    /\ IF dev_losses = <<>>
       THEN /\ tpc' = "failed"
            /\ UNCHANGED <<best_dev_loss, saved, dev_history, steps, epoch_idx>>
       ELSE LET dev_loss == FloatMean(dev_losses)
            IN  /\ IF Improved(dev_loss, best_dev_loss)
                   THEN /\ best_dev_loss' = dev_loss
                        /\ saved' = {s \in saved : s.state_dict # epoch_idx}
                                       \cup {[state_dict |-> epoch_idx,
                                              restore_state |-> RestoreState(epoch_idx)]}
                   ELSE UNCHANGED <<best_dev_loss, saved>>
                /\ dev_history' = Append(dev_history,
                                         [epoch_idx |-> epoch_idx, dev_loss |-> dev_loss])
                /\ steps' = Append(steps, Step("checkpoint", "checkpoint"))
                /\ epoch_idx' = epoch_idx + 1
                /\ tpc' = "epoch_head"
    /\ UNCHANGED <<tcfg, batch_idx, training, grad_enabled, dev_losses, metrics,
                   sched_arg>>
    /\ UNCHANGED callVars

\* No call of a loss function of adaptive_scaling.py is modelled.
CallIdle ==
    /\ fn = "none"
    /\ pc = "idle"
    /\ cfg = <<>>
    /\ inp = <<>>
    /\ loc = <<>>
    /\ loss = FloatZero
    /\ ret = "none"
    /\ raised = 0
    /\ done = {}

\* train() is entered with the configuration c.
TrainStart(c) ==
    /\ tcfg = c
    /\ tpc = "setup"
    /\ epoch_idx = 0
    /\ batch_idx = 0
    /\ training = TRUE
    /\ grad_enabled = TRUE
    /\ best_dev_loss = Inf
    /\ dev_losses = <<>>
    /\ metrics = MetricsNew
    /\ saved = {}
    /\ sched_arg = None
    /\ steps = <<>>
    /\ dev_history = <<>>
    /\ CallIdle

\* Runs from scratch whose loaders yield the configured number of batches:
\* every number of epochs and of batches without gradient clipping, and every
\* number of epochs and of training batches with it; the average is over the
\* last batch only.
TrainInitFresh ==
    \E ne \in 0..MaxEpochs, nt \in 1..MaxTrainBatches, nd \in 1..MaxDevBatches :
    \E clip \in {None, <<1>>} :
        /\ clip # None => nd = 1
        /\ TrainStart([num_epochs |-> ne, train_num_batches |-> nt,
                       dev_num_batches |-> nd, avg_num_batches |-> 1,
                       train_loader_batches |-> nt, dev_loader_batches |-> nd,
                       clip_grad_norm_max_norm |-> clip,
                       restore_state_dict_path |-> None,
                       restore_state |-> RestoreState(0),
                       reset_epoch_idx |-> FALSE])

\* Runs restored from a checkpoint of any epoch, with and without
\* reset_epoch_idx; one batch of each kind per epoch.
TrainInitRestore ==
    \E ne \in 0..MaxEpochs, r \in 0..MaxEpochs, reset \in BOOLEAN :
        TrainStart([num_epochs |-> ne, train_num_batches |-> 1,
                    dev_num_batches |-> 1, avg_num_batches |-> 1,
                    train_loader_batches |-> 1, dev_loader_batches |-> 1,
                    clip_grad_norm_max_norm |-> None,
                    restore_state_dict_path |-> <<"state_dict.pt">>,
                    restore_state |-> RestoreState(r),
                    reset_epoch_idx |-> reset])

\* Runs whose restore path is None or empty, with and without reset_epoch_idx;
\* one batch of each kind per epoch, averages over the last two batches.
TrainInitNoPath ==
    \E path \in {None, <<"">>}, reset \in BOOLEAN :
        TrainStart([num_epochs |-> MaxEpochs, train_num_batches |-> 1,
                    dev_num_batches |-> 1, avg_num_batches |-> 2,
                    train_loader_batches |-> 1, dev_loader_batches |-> 1,
                    clip_grad_norm_max_norm |-> None,
                    restore_state_dict_path |-> path,
                    restore_state |-> RestoreState(MaxEpochs),
                    reset_epoch_idx |-> reset])

\* Runs from scratch with one loader yielding any number of batches, also none
\* and also more than the one batch configured, and the other yielding one.
TrainInitLoaders ==
    \E lt \in 0..MaxTrainBatches, ld \in 0..MaxDevBatches :
        /\ lt = 1 \/ ld = 1
        /\ TrainStart([num_epochs |-> MaxEpochs, train_num_batches |-> 1,
                       dev_num_batches |-> 1, avg_num_batches |-> 1,
                       train_loader_batches |-> lt, dev_loader_batches |-> ld,
                       clip_grad_norm_max_norm |-> None,
                       restore_state_dict_path |-> None,
                       restore_state |-> RestoreState(0),
                       reset_epoch_idx |-> FALSE])

TrainInit ==
    TrainInitFresh \/ TrainInitRestore \/ TrainInitNoPath \/ TrainInitLoaders

TrainNext ==
    \/ TrainSetup
    \/ EpochHead
    \/ TrainFetch
    \/ TrainForward
    \/ TrainLoss
    \/ TrainBackward
    \/ TrainClip
    \/ TrainOptimizerStep
    \/ TrainSchedulerStep
    \/ TrainZeroGrad
    \/ EvalHead
    \/ EvalFetch
    \/ EvalForward
    \/ EvalLoss
    \/ Checkpoint

SpecTrain == TrainInit /\ [][TrainNext]_vars

(***************************************************************************)
(* Properties                                                              *)
(***************************************************************************)
Box == inp.downsampled_core_box

BoxRows == Box.down - Box.up + 1

BoxCols == Box.right - Box.left + 1

\* The cropped tensor holds, for every sample of the (B, 1, H, W) feature, the
\* rows up..down and the columns left..right, and nothing else.
KeepsBox(cropped, feature) ==
    LET B == feature.shape[1]
        kept == {<<b, r, c>> : b \in 0..(B - 1), r \in Box.up..Box.down,
                               c \in Box.left..Box.right}
    IN  /\ cropped.shape = <<B, BoxRows, BoxCols>>
        /\ DOMAIN cropped.data =
               {<<k[1], k[2] - Box.up, k[3] - Box.left>> : k \in kept}
        /\ \A b \in 0..(B - 1) :
               Cardinality({i \in DOMAIN cropped.data : i[1] = b}) = BoxRows * BoxCols
        /\ \A k \in kept :
               cropped.data[<<k[1], k[2] - Box.up, k[3] - Box.left>>]
                   = feature.data[<<k[1], 0, k[2], k[3]>>]
        /\ (Box.down = Box.up /\ Box.right = Box.left) =>
               \A b \in 0..(B - 1) :
                   {cropped.data[i] : i \in {j \in DOMAIN cropped.data : j[1] = b}}
                       = {feature.data[<<b, 0, Box.up, Box.left>>]}

\* C1: right after the crop, each cropped mask, height and probability feature
\* holds exactly the rows up..down and columns left..right of the core box,
\* (down-up+1) * (right-left+1) elements per sample, and the single element at
\* (up, left) when the box is one cell.
C1_CropKeepsInclusiveBox ==
    pc = "cropped" =>
        /\ fn = "rough" =>
               /\ KeepsBox(loc.rough_char_mask_feature, inp.rough_char_mask_feature)
               /\ KeepsBox(loc.rough_char_height_feature, inp.rough_char_height_feature)
        /\ fn = "precise" =>
               /\ KeepsBox(loc.precise_char_prob_feature, inp.precise_char_prob_feature)
               /\ inp.precise_char_mask_feature.none
                  \/ KeepsBox(loc.precise_char_mask_feature,
                              inp.precise_char_mask_feature)

\* A one-cell core box away from the origin has been cropped to one element.
C1_Witness ==
    /\ pc = "cropped"
    /\ fn = "rough"
    /\ Box.up = 1 /\ Box.down = 1 /\ Box.left = 1 /\ Box.right = 1
    /\ loc.rough_char_height_feature.shape = <<inp.rough_char_height_feature.shape[1], 1, 1>>

\* The element of the (B, 1, H, W) feature that the cropped position i came from.
Uncropped(feature, i) == feature.data[<<i[1], 0, Box.up + i[2], Box.left + i[3]>>]

RoughAddends(name) == SelectSeq(loss.addends, LAMBDA a : a.term.prim = name)

\* C2: the mask handed to the scale term is 1 at a position only if the
\* unclamped height exceeds char_height_feature_min, the unclamped score
\* exceeds downsampled_score_map_min and the ground-truth mask is true there;
\* where the ground-truth mask is false it is 0.
C2_CriticalMaskInsideGtMask ==
    (fn = "rough" /\ pc \in {"scale_done", "returned"} /\ cfg.l1_factor > 0) =>
        LET l1 == RoughAddends("l1")[1].term
        IN  /\ Len(RoughAddends("l1")) = 1
            /\ l1.mask = loc.l1_mask
            /\ DOMAIN l1.mask.data = DOMAIN inp.downsampled_mask.data
            /\ \A i \in DOMAIN l1.mask.data :
                   /\ l1.mask.data[i] \in {0, 1}
                   /\ l1.mask.data[i] = 1 =>
                          /\ Uncropped(inp.rough_char_height_feature, i)
                                 > cfg.char_height_feature_min
                          /\ inp.downsampled_score_map.data[i]
                                 > cfg.downsampled_score_map_min
                          /\ inp.downsampled_mask.data[i] # 0
                   /\ inp.downsampled_mask.data[i] = 0 => l1.mask.data[i] = 0

\* The scale term ran on a position outside the ground-truth mask whose height
\* and score both exceed their minimum, and on one the critical mask keeps.
C2_Witness ==
    /\ fn = "rough"
    /\ pc = "scale_done"
    /\ cfg.l1_factor > 0
    /\ \E i \in DOMAIN loc.l1_mask.data :
           /\ inp.downsampled_mask.data[i] = 0
           /\ Uncropped(inp.rough_char_height_feature, i) > cfg.char_height_feature_min
           /\ inp.downsampled_score_map.data[i] > cfg.downsampled_score_map_min
    /\ \E i \in DOMAIN loc.l1_mask.data : loc.l1_mask.data[i] = 1

\* The features of the call do not have the shapes the call requires.
RoughIllShaped ==
    \/ inp.rough_char_mask_feature.shape # inp.rough_char_height_feature.shape
    \/ ShapeFrom1(inp.rough_char_mask_feature.shape) # <<1>> \o inp.downsampled_shape

PreciseIllShaped ==
    \/ /\ ~inp.precise_char_mask_feature.none
       /\ inp.precise_char_mask_feature.shape # inp.precise_char_prob_feature.shape
    \/ ShapeFrom1(inp.precise_char_prob_feature.shape) # <<1>> \o inp.downsampled_shape

\* C3: a precise call with char_mask_focal_factor > 0 and no mask feature never
\* gets past the mask focal term and never returns a loss, and when it stops it
\* has raised an assertion error; with char_mask_focal_factor = 0 the absent
\* mask feature never trips the assertion on the mask feature: such a call
\* fails only on the shape of the probability feature, on the batch size of
\* the label points, or on a loss that no term was added to.
C3_AbsentMaskFailsLoudly ==
    (fn = "precise" /\ inp.precise_char_mask_feature.none) =>
        /\ cfg.char_mask_focal_factor > 0 =>
               /\ pc \notin {"mask_done", "prob_done", "point_done", "returned"}
               /\ ret # "loss"
               /\ pc = "failed" => ret = "AssertionError"
               /\ loss.addends = <<>>
        /\ cfg.char_mask_focal_factor = 0 =>
               /\ raised \in {0, 177, 214, 341}
               /\ raised = 214 => PreciseIllShaped
               /\ raised = 341 => loss.isFloat

\* A call with the mask focal term on and no mask feature has failed on the
\* assertion that guards the term.
C3_Witness ==
    /\ fn = "precise"
    /\ inp.precise_char_mask_feature.none
    /\ cfg.char_mask_focal_factor > 0
    /\ pc = "failed"
    /\ ret = "AssertionError"
    /\ raised = 273

RoughAllFactorsZero ==
    /\ cfg.bce_factor = 0
    /\ cfg.focal_factor = 0
    /\ cfg.dice_factor = 0
    /\ cfg.l1_factor = 0

\* C4: a rough call that returns, returns a tensor; with the four factors 0 the
\* accumulator is still the plain 0.0 after the last term and the call fails
\* with an assertion error instead of returning.
C4_RoughNeverReturnsFloat ==
    fn = "rough" =>
        /\ ret = "loss" => (~loss.isFloat /\ Len(loss.addends) > 0)
        /\ RoughAllFactorsZero =>
               /\ pc = "scale_done" => loss = FloatZero
               /\ pc # "returned"
               /\ ret # "loss"
               /\ pc = "failed" => ret = "AssertionError"

\* A well-shaped rough call with the four factors 0 has failed on the final
\* assertion.
C4_Witness ==
    /\ fn = "rough"
    /\ RoughAllFactorsZero
    /\ pc = "failed"
    /\ ret = "AssertionError"
    /\ raised = 130
    /\ loss = FloatZero

\* C5: a call whose mask and height (probability) features differ in shape, or
\* are not (1, H, W) per sample, fails with an assertion error on the shape
\* assertions, before anything is squeezed or cropped and before any term is
\* added.
C5_IllShapedFeaturesFail ==
    /\ (fn = "rough" /\ RoughIllShaped) =>
           /\ pc \in {"start", "failed"}
           /\ pc = "failed" => (ret = "AssertionError" /\ raised \in {67, 68})
           /\ loc.rough_char_mask_feature = inp.rough_char_mask_feature
           /\ loc.rough_char_height_feature = inp.rough_char_height_feature
           /\ loss = FloatZero
    /\ (fn = "precise" /\ PreciseIllShaped) =>
           /\ pc \in {"start", "failed"}
           /\ pc = "failed" => (ret = "AssertionError" /\ raised \in {213, 214})
           /\ loc.precise_char_mask_feature = inp.precise_char_mask_feature
           /\ loc.precise_char_prob_feature = inp.precise_char_prob_feature
           /\ loss = FloatZero

\* A rough call whose two features are each (1, H, W) per sample in their own
\* right but differ from each other has failed on the first assertion.
C5_Witness ==
    /\ fn = "rough"
    /\ inp.rough_char_mask_feature.shape # inp.rough_char_height_feature.shape
    /\ ShapeFrom1(inp.rough_char_mask_feature.shape) = <<1>> \o inp.downsampled_shape
    /\ pc = "failed"
    /\ raised = 67

\* The addends a factor of 0 leaves out.
ActiveOnly(addends) == SelectSeq(addends, LAMBDA a : a.factor > 0)

\* The four terms of the rough loss in the order of the code, on the cropped
\* mask feature and on the clamped crop of the height feature.
RoughTerms ==
    <<[factor |-> cfg.bce_factor,
       term |-> PrimCall("weighted_bce_with_logits", loc.rough_char_mask_feature,
                         inp.downsampled_mask, NoneTensor)],
      [factor |-> cfg.focal_factor,
       term |-> PrimCall("focal_with_logits", loc.rough_char_mask_feature,
                         inp.downsampled_mask, NoneTensor)],
      [factor |-> cfg.dice_factor,
       term |-> PrimCall("dice", Sigmoid(loc.rough_char_mask_feature),
                         inp.downsampled_mask, NoneTensor)],
      [factor |-> cfg.l1_factor,
       term |-> PrimCall("l1", Log(loc.rough_char_height_feature),
                         Log(loc.downsampled_score_map), loc.l1_mask)]>>

\* C6: the loss a rough call returns is the sum of factor * term over exactly
\* the terms whose factor is > 0, no primitive having been called for a factor
\* of 0; with only l1_factor = 1.0 on it is the masked log-space smooth-L1 term
\* alone.
C6_RoughLossIsActiveTerms ==
    (fn = "rough" /\ pc = "returned") =>
        /\ loss.addends = ActiveOnly(RoughTerms)
        /\ loss.scales = <<>>
        /\ \A k \in 1..Len(loss.addends) : loss.addends[k].factor > 0
        /\ (cfg.bce_factor = 0 /\ cfg.focal_factor = 0 /\ cfg.dice_factor = 0
            /\ cfg.l1_factor = 100) =>
               /\ Len(loss.addends) = 1
               /\ loss.addends[1].factor = 100
               /\ loss.addends[1].term.prim = "l1"
               /\ loss.addends[1].term.mask = loc.l1_mask
               /\ \A i \in DOMAIN loc.l1_mask.data :
                      /\ loss.addends[1].term.pred.data[i]
                             = LogMilli(Max2(Uncropped(inp.rough_char_height_feature, i),
                                             cfg.char_height_feature_min))
                      /\ loss.addends[1].term.gt.data[i]
                             = LogMilli(Max2(inp.downsampled_score_map.data[i],
                                             cfg.downsampled_score_map_min))

\* A rough call with only l1_factor = 1.0 on has returned.
C6_Witness ==
    /\ fn = "rough"
    /\ pc = "returned"
    /\ cfg.bce_factor = 0 /\ cfg.focal_factor = 0 /\ cfg.dice_factor = 0
    /\ cfg.l1_factor = 100
    /\ Len(loss.addends) = 1

\* The nine terms of the precise loss in the order of the code.
PreciseTerms ==
    <<[factor |-> cfg.char_mask_focal_factor,
       term |-> PrimCall("char_mask_focal_with_logits", loc.precise_char_mask_feature,
                         inp.downsampled_char_mask, NoneTensor)],
      [factor |-> cfg.char_prob_l1_factor,
       term |-> PrimCall("char_prob_l1", Sigmoid(loc.precise_char_prob_feature),
                         inp.downsampled_char_prob_score_map,
                         inp.downsampled_char_mask)],
      [factor |-> cfg.char_prob_pos_l2_factor,
       term |-> PrimCall("char_prob_l2", Sigmoid(loc.precise_char_prob_feature),
                         inp.downsampled_char_prob_score_map,
                         inp.downsampled_char_mask)],
      [factor |-> cfg.char_prob_neg_l2_factor,
       term |-> PrimCall("char_prob_l2", Sigmoid(loc.precise_char_prob_feature),
                         inp.downsampled_char_prob_score_map,
                         Invert(inp.downsampled_char_mask))],
      [factor |-> cfg.char_prob_wahr_factor,
       term |-> PrimCall("char_prob_wahr", Sigmoid(loc.precise_char_prob_feature),
                         inp.downsampled_char_prob_score_map, NoneTensor)],
      [factor |-> cfg.char_up_left_offset_l1_factor,
       term |-> PrimCall("char_up_left_offset_l1",
                         loc.up_left_corner_offset_label_point_feature,
                         inp.char_up_left_offsets, NoneTensor)],
      [factor |-> cfg.char_up_left_distance_regulation_l1_factor,
       term |-> PrimCall("char_up_left_distance_regulation_l1",
                         NormDim2(loc.up_left_corner_offset_label_point_feature),
                         Squeeze(loc.up_left_only_corner_distance_label_point_feature, 2),
                         NoneTensor)],
      [factor |-> cfg.char_corner_angle_cross_entropy_factor,
       term |-> PrimCall("char_corner_angle_cross_entropy",
                         loc.corner_angle_label_point_feature,
                         Transpose12(inp.char_corner_angles), NoneTensor)],
      [factor |-> cfg.char_corner_distance_l1_factor,
       term |-> PrimCall("char_corner_distance_l1",
                         loc.up_left_trimmed_corner_distance_label_point_feature,
                         inp.char_corner_distances, NoneTensor)]>>

\* C7: the loss a precise call returns is loss_factor times the sum of
\* factor * term over exactly the terms whose factor is > 0; loss_factor is
\* applied once, and not before the last term has been added.
C7_PreciseLossIsScaledActiveTerms ==
    fn = "precise" =>
        /\ pc = "returned" =>
               /\ loss.addends = ActiveOnly(PreciseTerms)
               /\ Len(loss.addends) > 0
               /\ loss.scales = <<cfg.loss_factor>>
        /\ pc # "returned" => loss.scales = <<>>

\* A precise call with all nine terms on and loss_factor 0.15 has returned.
C7_Witness ==
    /\ fn = "precise"
    /\ pc = "returned"
    /\ Len(loss.addends) = 9
    /\ cfg.loss_factor = 15
    /\ loss.scales = <<15>>

LabelY == inp.downsampled_label_point_y

LabelX == inp.downsampled_label_point_x

\* gathered is (B, P, C) and holds, for sample b and point p, the C channels of
\* that sample's feature at row y[b, p], column x[b, p].
IsGatherOf(gathered, feature) ==
    LET B == feature.shape[1]
        C == feature.shape[2]
        P == LabelY.shape[2]
    IN  /\ gathered.shape = <<B, P, C>>
        /\ DOMAIN gathered.data =
               {<<b, p, c>> : b \in 0..(B - 1), p \in 0..(P - 1), c \in 0..(C - 1)}
        /\ \A b \in 0..(B - 1), p \in 0..(P - 1), c \in 0..(C - 1) :
               gathered.data[<<b, p, c>>]
                   = feature.data[<<b, c, LabelY.data[<<b, p>>], LabelX.data[<<b, p>>]>>]

PastGather == {"gathered", "mask_done", "prob_done", "point_done", "returned"}

\* C9: once the gathers of a precise call are done, the gathered offset and
\* corner-distance features are (B, P, C) with
\* gathered[b, p, c] = feature[b, c, y[b, p], x[b, p]] on the uncropped feature;
\* label points whose batch size differs from the feature's stop the call with
\* the assertion error of get_label_point_feature before anything is gathered.
C9_GatherIsPureIndexing ==
    fn = "precise" =>
        /\ pc \in PastGather =>
               /\ IsGatherOf(loc.up_left_corner_offset_label_point_feature,
                             inp.precise_char_up_left_corner_offset_feature)
               /\ IsGatherOf(loc.corner_distance_label_point_feature,
                             inp.precise_char_corner_distance_feature)
               /\ IsGatherOf(Transpose12(loc.corner_angle_label_point_feature),
                             inp.precise_char_corner_angle_feature)
        /\ (\/ LabelY.shape[1] # inp.precise_char_up_left_corner_offset_feature.shape[1]
            \/ LabelX.shape[1] # inp.precise_char_up_left_corner_offset_feature.shape[1]) =>
               /\ pc \notin PastGather
               /\ loc.up_left_corner_offset_label_point_feature = NoneTensor
               /\ pc = "failed" => ret = "AssertionError"
               /\ (pc = "failed" /\ ~PreciseIllShaped) => raised = 177

\* A batch of 2 with 3 label points each, at points whose row and column
\* differ, has been gathered.
C9_Witness ==
    /\ fn = "precise"
    /\ pc = "gathered"
    /\ loc.up_left_corner_offset_label_point_feature.shape = <<2, 3, 2>>
    /\ loc.corner_distance_label_point_feature.shape = <<2, 3, 4>>
    /\ \E i \in DOMAIN LabelY.data : LabelY.data[i] # LabelX.data[i]
    /\ \E i \in DOMAIN LabelY.data, j \in DOMAIN LabelY.data :
           LabelY.data[i] # LabelY.data[j]

PreciseAddends(name) == SelectSeq(loss.addends, LAMBDA a : a.term.prim = name)

RegulationOn ==
    /\ fn = "precise"
    /\ pc \in {"point_done", "returned"}
    /\ cfg.char_up_left_distance_regulation_l1_factor > 0

\* The tensors of shape (B, P) that the ground-truth arguments of the call hold:
\* a channel of the corner distances or of the up-left offsets, or the norm of
\* the up-left offsets.
GroundTruthPointTargets ==
    {Squeeze(SliceLast(inp.char_corner_distances, k, k + 1), 2) : k \in 0..2}
        \cup {Squeeze(SliceLast(inp.char_up_left_offsets, k, k + 1), 2) : k \in 0..1}
        \cup {NormDim2(inp.char_up_left_offsets)}

\* C10 as stated: the target of the distance regulation term is a
\* ground-truth argument of the call and is not taken from the predictions.
C10_TargetIsGroundTruth ==
    RegulationOn =>
        LET t == PreciseAddends("char_up_left_distance_regulation_l1")[1].term
        IN  /\ t.gt \in GroundTruthPointTargets
            /\ \E i \in DOMAIN t.gt.data :
                   t.gt.data[i] # inp.precise_char_corner_distance_feature.data[
                                      <<i[1], 0, LabelY.data[i], LabelX.data[i]>>]

\* C10 amended: the distance regulation term is called once, on the L2 norm of
\* the predicted up-left offset at each label point, against channel 0 of the
\* predicted corner-distance feature at that label point.
C10_TargetIsPredictedUpLeftDistance ==
    RegulationOn =>
        LET ts == PreciseAddends("char_up_left_distance_regulation_l1")
            t == ts[1].term
            offset == inp.precise_char_up_left_corner_offset_feature
        IN  /\ Len(ts) = 1
            /\ ts[1].factor = cfg.char_up_left_distance_regulation_l1_factor
            /\ t.pred.shape = LabelY.shape
            /\ t.gt.shape = LabelY.shape
            /\ t.mask = NoneTensor
            /\ \A i \in DOMAIN LabelY.data :
                   LET y == LabelY.data[i]
                       x == LabelX.data[i]
                       dy == offset.data[<<i[1], 0, y, x>>]
                       dx == offset.data[<<i[1], 1, y, x>>]
                   IN  /\ t.pred.data[i] = ISqrt(dy * dy + dx * dx)
                       /\ t.gt.data[i] =
                              inp.precise_char_corner_distance_feature.data[
                                  <<i[1], 0, y, x>>]

\* The distance regulation term has been added for a batch of 2 with 3 points.
C10_Witness ==
    /\ RegulationOn
    /\ LabelY.shape = <<2, 3>>
    /\ Len(PreciseAddends("char_up_left_distance_regulation_l1")) = 1

\* The scenario of C8: batch size 1, H = W = 4, the core box (0, 3, 0, 3), and
\* char_prob_pos_l2_factor = 2.0 the only factor on.
InScenario ==
    /\ fn = "precise"
    /\ inp.precise_char_prob_feature.shape = <<1, 1, 4, 4>>
    /\ Box = [up |-> 0, down |-> 3, left |-> 0, right |-> 3]
    /\ cfg \in ScenarioConfigs

TrueMask == {i \in DOMAIN inp.downsampled_char_mask.data :
                 inp.downsampled_char_mask.data[i] # 0}

\* The sum of (sigmoid(pred) - gt)^2 over the true-mask elements.
SquaredErrorOverMask ==
    SumOver(TrueMask,
            LAMBDA i : (SigmoidMilli(Uncropped(inp.precise_char_prob_feature, i))
                            - inp.downsampled_char_prob_score_map.data[i])
                       * (SigmoidMilli(Uncropped(inp.precise_char_prob_feature, i))
                            - inp.downsampled_char_prob_score_map.data[i]),
            0)

\* C8 as stated: in the scenario the returned loss is
\* 2.0 * mean((sigmoid(pred) - gt)^2 over the true-mask elements).
C8_LossIsTwiceMaskedSquaredError ==
    (InScenario /\ pc = "returned") =>
        LossValue(loss) = Reduce(<<2 * SquaredErrorOverMask, Cardinality(TrueMask)>>)

\* C8 amended: in the scenario, with a mask that has a true element, the
\* returned loss is
\* loss_factor * 2.0 * mean((sigmoid(pred) - gt)^2 over the true-mask elements).
C8_LossIsScaledTwiceMaskedSquaredError ==
    (InScenario /\ pc = "returned" /\ TrueMask # {}) =>
        /\ Len(loss.addends) = 1
        /\ LossValue(loss) =
               RatMul(Factor(cfg.loss_factor),
                      Reduce(<<2 * SquaredErrorOverMask, Cardinality(TrueMask)>>))

\* The scenario has returned a non-zero loss under the default loss_factor 0.15.
C8_Witness ==
    /\ InScenario
    /\ pc = "returned"
    /\ cfg.loss_factor = 15
    /\ TrueMask # {}
    /\ SquaredErrorOverMask > 0
    /\ LossValue(loss)[1] > 0

\* C11: a call leaves the caller's tensors, the core box and self.config as
\* they were, and a call that finishes with the arguments of an earlier call on
\* the same object (whatever was called in between) finishes as that call did:
\* the same loss, or the same assertion.
C11_CallIsFramedAndStateless ==
    [][/\ cfg' = cfg
       /\ pc \notin Finished => inp' = inp
       /\ pc' \in Finished =>
              \A d \in done' :
                  d.args = inp' =>
                      d.ret = ret' /\ d.raised = raised' /\ d.loss = loss']_vars

\* A rough call has returned a loss for arguments an earlier call had, after a
\* call on another batch; the score map it worked on was clamped, the caller's
\* was not.
C11_Witness ==
    /\ fn = "rough"
    /\ pc = "returned"
    /\ loc.downsampled_score_map # inp.downsampled_score_map
    /\ \E d \in done : d.args = inp /\ d.ret = "loss"
    /\ \E d \in done : d.args # inp

\* state_dict_<e>.pt has been written.
SavedFor(e) == \E s \in saved : s.state_dict = e

\* The mean evaluation loss of the i-th epoch this run executed.
MeanOf(i) == dev_history[i].dev_loss

\* Every written state_dict_<e>.pt holds a RestoreState with epoch_idx = e.
SavedCarryTheirEpoch == \A s \in saved : s.restore_state.epoch_idx = s.state_dict

\* C12 as claimed: an epoch's checkpoint is written exactly when its mean
\* evaluation loss is strictly less than the mean of every earlier epoch of the
\* run (so the first executed epoch always writes one), it carries the epoch's
\* index, and best_dev_loss is the minimum of the means seen so far.
C12_SavedIffBelowEveryEarlierMean ==
    /\ \A i \in DOMAIN dev_history :
          SavedFor(dev_history[i].epoch_idx)
              <=> \A j \in 1..(i - 1) : FloatLess(MeanOf(i), MeanOf(j))
    /\ SavedCarryTheirEpoch
    /\ dev_history # <<>> =>
          /\ \E i \in DOMAIN dev_history : best_dev_loss = MeanOf(i)
          /\ \A i \in DOMAIN dev_history : ~FloatLess(MeanOf(i), best_dev_loss)

\* What holds of the checkpoints and of best_dev_loss after any number of epochs.
CheckpointsFollowBest ==
    /\ \A i \in DOMAIN dev_history :
          SavedFor(dev_history[i].epoch_idx)
              <=> /\ MeanOf(i).kind = "num"
                  /\ \A j \in 1..(i - 1) :
                        MeanOf(j).kind # "nan" => FloatLess(MeanOf(i), MeanOf(j))
    /\ SavedCarryTheirEpoch
    /\ best_dev_loss = Inf \/ \E i \in DOMAIN dev_history : best_dev_loss = MeanOf(i)
    /\ best_dev_loss.kind # "nan"
    /\ \A i \in DOMAIN dev_history :
          MeanOf(i).kind # "nan" => ~FloatLess(MeanOf(i), best_dev_loss)

\* C12, amended: an epoch's checkpoint is written exactly when its mean
\* evaluation loss is a number (neither NaN nor +infinity) strictly less than
\* every earlier mean of the run that is not NaN; it carries the epoch's index;
\* best_dev_loss never increases and is the minimum of +infinity and the means
\* seen so far that are not NaN.
C12_SavedIffBelowBest ==
    [][CheckpointsFollowBest' /\ ~FloatLess(best_dev_loss, best_dev_loss')]_vars

\* Two epochs have run with the same finite mean: the first wrote its checkpoint,
\* the second did not.
C12_Witness ==
    /\ Len(dev_history) >= 2
    /\ MeanOf(1).kind = "num"
    /\ MeanOf(2) = MeanOf(1)
    /\ SavedFor(dev_history[1].epoch_idx)
    /\ ~SavedFor(dev_history[2].epoch_idx)

GradientOps == {"backward", "clip_grad_norm", "optimizer_step", "scheduler_step"}

\* C13: in every epoch, each training forward pass and each backward ran with the
\* model in training mode and autograd on, each evaluation forward pass with the
\* model in evaluation mode and autograd off, and once the evaluation of an
\* epoch has begun (the mode is evaluation, autograd is off) no backward,
\* gradient clipping, optimizer step or scheduler step runs in that epoch.
C13_ModeFitsPhase ==
    /\ \A i \in DOMAIN steps :
          /\ steps[i].phase = "train" /\ steps[i].op \in {"forward", "backward"}
                => steps[i].training /\ steps[i].grad
          /\ steps[i].phase = "eval" /\ steps[i].op = "forward"
                => ~steps[i].training /\ ~steps[i].grad
          /\ steps[i].op \in GradientOps => steps[i].training /\ steps[i].grad
    /\ \A i, j \in DOMAIN steps :
          i < j /\ ~steps[i].training => steps[j].op \notin GradientOps
    /\ tpc \in {"eval_fetch", "eval_forward", "eval_loss", "checkpoint"}
          => ~training /\ ~grad_enabled

\* An epoch after the first of the run has trained and evaluated, and is about
\* to decide on its checkpoint.
C13_Witness ==
    /\ tpc = "checkpoint"
    /\ dev_history # <<>>
    /\ \E i \in DOMAIN steps : steps[i].phase = "train" /\ steps[i].op = "backward"
    /\ \E i \in DOMAIN steps : steps[i].phase = "eval" /\ steps[i].op = "forward"

\* The operations training batch b has done so far, logging left out.
OpsOfBatch(b) ==
    LET mine == SelectSeq(steps, LAMBDA s : s.phase = "train" /\ s.batch = b
                                             /\ s.op # "log")
    IN  [i \in DOMAIN mine |-> mine[i].op]

\* The operations of a whole training batch, in the claimed order.
BatchOrder ==
    <<"forward", "loss", "backward">>
        \o (IF tcfg.clip_grad_norm_max_norm # None THEN <<"clip_grad_norm">> ELSE <<>>)
        \o <<"optimizer_step", "scheduler_step", "zero_grad">>

PhaseRank(phase) == IF phase = "train" THEN 1 ELSE IF phase = "eval" THEN 2 ELSE 3

\* What holds of `steps`, the operations of the current epoch: every training
\* batch begun is a prefix of BatchOrder and, once the next batch or the
\* evaluation is reached, the whole of it; training batches come in the order
\* of batch_idx, before every evaluation batch, and these before the checkpoint
\* decision.
EpochInOrder ==
    /\ \A b \in 1..tcfg.train_loader_batches :
          LET ops == OpsOfBatch(b)
          IN  /\ Len(ops) <= Len(BatchOrder)
              /\ ops = SubSeq(BatchOrder, 1, Len(ops))
              /\ \/ \E i \in DOMAIN steps : steps[i].phase # "train"
                 \/ \E i \in DOMAIN steps : steps[i].batch > b
                 \/ tpc \in {"train_fetch", "eval_head"} /\ batch_idx >= b
                 => ops = BatchOrder
    /\ \A i \in 1..(Len(steps) - 1) :
          /\ PhaseRank(steps[i].phase) <= PhaseRank(steps[i + 1].phase)
          /\ steps[i].phase = steps[i + 1].phase => steps[i].batch <= steps[i + 1].batch
    /\ \A i \in DOMAIN steps :
          steps[i].phase = "checkpoint" =>
              /\ \A b \in 1..tcfg.train_loader_batches : OpsOfBatch(b) = BatchOrder
              /\ Cardinality({j \in DOMAIN steps :
                                  steps[j].phase = "eval" /\ steps[j].op = "forward"})
                    = tcfg.dev_loader_batches

\* a/b <= c/d for fractions <<numerator, denominator>> with positive denominators.
FractionLeq(p, q) == p[1] * q[2] <= q[1] * p[2]

ClaimedStart ==
    IF ~Truthy(tcfg.restore_state_dict_path) \/ tcfg.reset_epoch_idx
    THEN 0
    ELSE tcfg.restore_state.epoch_idx + 1

\* The number of epochs the claim has the loop execute.
ClaimedEpochs == Max2(0, tcfg.num_epochs - ClaimedStart)

\* What holds of the epochs executed so far: they are ClaimedStart,
\* ClaimedStart + 1, ... below num_epochs, each once; when the loop is over
\* there are ClaimedEpochs of them; and when there are none, nothing was
\* trained, evaluated or written.
EpochsRunOnceInOrder ==
    /\ \A i \in DOMAIN dev_history :
          /\ dev_history[i].epoch_idx = ClaimedStart + (i - 1)
          /\ dev_history[i].epoch_idx < tcfg.num_epochs
    /\ tpc \notin {"setup", "done"} => epoch_idx = ClaimedStart + Len(dev_history)
    /\ tpc = "done" =>
          /\ Len(dev_history) = ClaimedEpochs
          /\ epoch_idx = Max2(ClaimedStart, tcfg.num_epochs)
    /\ tpc # "setup" /\ ClaimedStart >= tcfg.num_epochs =>
          /\ tpc \in {"epoch_head", "done"}
          /\ steps = <<>>
          /\ dev_history = <<>>
          /\ saved = {}
          /\ metrics = MetricsNew
          /\ sched_arg = None

\* How far the loop is from its end: the epochs left, then the phase of the
\* epoch, then the batches left in the phase, then the position in the batch.
Measure ==
    <<Max2(0, tcfg.num_epochs - epoch_idx),
      CASE tpc = "epoch_head" -> 5
        [] tpc \in {"train_fetch", "train_forward", "train_loss", "backward", "clip",
                    "optimizer_step", "scheduler_step", "zero_grad"} -> 4
        [] tpc = "eval_head" -> 3
        [] tpc \in {"eval_fetch", "eval_forward", "eval_loss"} -> 2
        [] tpc = "checkpoint" -> 1
        [] OTHER -> 0,
      CASE tpc \in {"train_fetch", "train_forward", "train_loss", "backward", "clip",
                    "optimizer_step", "scheduler_step", "zero_grad"}
             -> tcfg.train_loader_batches - batch_idx
        [] tpc \in {"eval_fetch", "eval_forward", "eval_loss"}
             -> tcfg.dev_loader_batches - batch_idx
        [] OTHER -> 0,
      CASE tpc \in {"train_forward", "eval_forward"} -> 7
        [] tpc \in {"train_loss", "eval_loss"} -> 6
        [] tpc = "backward" -> 5
        [] tpc = "clip" -> 4
        [] tpc = "optimizer_step" -> 3
        [] tpc = "scheduler_step" -> 2
        [] tpc = "zero_grad" -> 1
        [] OTHER -> 0>>

\* m is before n in the lexicographic order of tuples of naturals.
LexLess(m, n) ==
    \E k \in DOMAIN m :
        /\ m[k] < n[k]
        /\ \A h \in 1..(k - 1) : m[h] = n[h]

C16_EvalLossesLeaveTrainLossAlone ==
    [][/\ metrics'[TRAIN_LOSS] # metrics[TRAIN_LOSS] => tpc \in {"setup", "train_loss"}
       /\ tpc = "eval_loss" =>
              metrics'[DEV_LOSS]
                  = MetricsUpdate(metrics, DEV_LOSS, dev_losses'[Len(dev_losses')],
                                  tcfg.avg_num_batches)[DEV_LOSS]]_vars

====
